---------------------------- MODULE Spec2Model ----------------------------
(* The Casino contract of src/lib.rs: a mapping of bets, an external        *)
(* randomness oracle, and the messages get_random, register_bet and         *)
(* resolve_bet.  Every message runs to completion (the host serialises      *)
(* calls), so each message is one action.                                   *)
EXTENDS Integers, Sequences, FiniteSets, TLC

(* ------------------------------ bounds ---------------------------------- *)
\* u64::MAX of `type Round = u64`, scaled down: the rounds are 0 .. RoundMax
RoundMax == 4
\* at most this many messages are sent to the contract
MaxCalls == 4
\* at most this many register_bet calls where resolve_bet is retried freely
MaxBets == 2

(* --------------------------- value domains ------------------------------ *)
\* AccountIds that call the contract
Users == {"alice", "bob"}
\* bet ids a caller may pass to resolve_bet (BetId = u128)
BetIds == {41, 42, 43}
\* randomness values the oracle may publish (Vec<u8>)
RandomValues == {<<0>>, <<255>>}
\* Option::None of the oracle's answer
None == <<>>
\* type Round = u64
Rounds == 0 .. RoundMax
\* outcomes of a payment: it completes (TRUE) or it does not (FALSE)
Transfers == BOOLEAN

VARIABLES
    bets,           \* Casino.bets : Mapping<BetId, BetDetails>
    latest_round,   \* the oracle's latest round
    random_values,  \* the oracle's published randomness, per round
    call,           \* the last message: its inputs, its result, its effects
    debits,         \* fee debits that completed, per user
    credits,        \* reward credits that completed, per user
    resolved,       \* resolve_bet calls that returned Ok, per bet id
    registered_at,  \* the oracle's latest round when the record under a bet
                    \* id was last inserted
    decided,        \* the win decisions resolve_bet has made, per randomness
    stack,          \* the resolve_bet call suspended in its reward payment,
                    \* if the payment has handed control to the recipient
    ncalls          \* messages sent so far

vars == <<bets, latest_round, random_values, call, debits, credits, resolved,
          registered_at, decided, stack, ncalls>>

(* ------------------------------ helpers --------------------------------- *)
\* type BetDetails = (Round, User)
BetDetails(round, user) == [round |-> round, user |-> user]

\* Mapping::insert
Insert(m, k, v) == [x \in (DOMAIN m) \cup {k} |-> IF x = k THEN v ELSE m[x]]

\* Mapping::remove
Remove(m, k) == [x \in (DOMAIN m) \ {k} |-> m[x]]

\* enum Error, and the other ways a message ends: Ok, or a trap (a panic,
\* which the host turns into a reverted call the contract cannot catch)
Errors == {"FailedTransfer", "BetResolutionTooEarly", "Custom"}

\* the record of a message that has not been sent
NoCall ==
    [op |-> "none", caller |-> "nobody", bet_id |-> 0, transfer |-> TRUE,
     key |-> 0, result |-> "none", value |-> <<>>, paid |-> "nobody",
     before |-> <<>>, credits |-> [u \in Users |-> 0], latest |-> 0, oracle |-> <<>>]

\* the record of a message as it is received: its inputs, and the ledger,
\* the credits and the oracle as they are then.  `transfer` is set where the
\* message attempts a payment, to the payment's outcome.
Sent(op, caller, bet_id) ==
    [NoCall EXCEPT !.op = op, !.caller = caller, !.bet_id = bet_id,
                   !.before = bets, !.credits = credits,
                   !.latest = latest_round, !.oracle = random_values]

(* ------------------------------ oracle ---------------------------------- *)
\* RandomOracleGetter::get_latest_round
get_latest_round == latest_round

\* RandomOracleGetter::get_random_value_for_round
get_random_value_for_round(round) ==
    IF round \in DOMAIN random_values THEN random_values[round] ELSE None

\* the oracle publishes the randomness of its next round
OraclePublish ==
    /\ latest_round < RoundMax
    /\ \E v \in RandomValues :
          random_values' = Insert(random_values, latest_round + 1, v)
    /\ latest_round' = latest_round + 1
    /\ UNCHANGED <<bets, call, debits, credits, resolved, registered_at, decided,
                 stack, ncalls>>

(* ------------------------- private functions ---------------------------- *)
\* fn get_id(&self) -> BetId
get_id == 42

\* fn pay_fee(&self, user) -> Result<(), Error>.  The body in the source is
\* a placeholder for the fee payment; `transfer` is the outcome of the
\* payment it stands for.
pay_fee(user, transfer) == IF transfer THEN "Ok" ELSE "FailedTransfer"

\* mutant of is_victorious: only the first reward is ever won
is_victorious_while_unpaid(randomness) ==
    credits["alice"] + credits["bob"] = 0

\* fn is_victorious(&self, randomness) -> bool
is_victorious(randomness) == TRUE

\* fn pay_reward(&self, user) -> Result<(), Error>.  As pay_fee: `transfer`
\* is the outcome of the reward payment the placeholder stands for.
pay_reward(user, transfer) == IF transfer THEN "Ok" ELSE "FailedTransfer"

\* mutant of future_round: the target round is the latest round itself
future_round_is_current(current_round) == current_round

\* mutant of future_round: the addition wraps around (no overflow check)
future_round_wrapping(current_round) == (current_round + 2) % (RoundMax + 1)

\* mutant of future_round: the target round is one round ahead, not two
future_round_one_ahead(current_round) ==
    IF current_round + 1 > RoundMax THEN RoundMax + 1 ELSE current_round + 1

\* let round = current_round + 2, on u64 with overflow checks (the contract
\* build enables them): Overflow stands for the panic
Overflow == RoundMax + 1
future_round(current_round) ==
    IF current_round + 2 > RoundMax THEN Overflow ELSE current_round + 2

\* a message that panics: the host reverts whatever it did
Trap(sent) ==
    /\ call' = [sent EXCEPT !.result = "Trap"]
    /\ UNCHANGED <<bets, debits, credits, resolved, registered_at>>

(* ------------------------------ messages -------------------------------- *)
\* mutant of get_random: the oracle is asked for its latest round, not for
\* the round `key`
get_random_of_latest_round(key) ==
    /\ call' = [Sent("get_random", "nobody", 0) EXCEPT
                    !.result = "Ok", !.key = key,
                    !.value = get_random_value_for_round(get_latest_round)]
    /\ UNCHANGED <<bets, latest_round, random_values, debits, credits, resolved,
                 registered_at, decided>>

\* pub fn get_random(&self, key: u64) -> Option<Vec<u8>>
get_random(key) ==
    /\ call' = [Sent("get_random", "nobody", 0) EXCEPT
                    !.result = "Ok", !.key = key,
                    !.value = get_random_value_for_round(key)]
    /\ UNCHANGED <<bets, latest_round, random_values, debits, credits, resolved,
                 registered_at, decided>>

\* mutant of register_bet_failed: the record is inserted before the fee is
\* checked
register_bet_failed_after_insert(sent, err) ==
    /\ bets' = Insert(bets, get_id,
                      BetDetails(future_round(get_latest_round), sent.caller))
    /\ call' = [sent EXCEPT !.result = err]
    /\ UNCHANGED <<debits, credits, resolved, registered_at>>

\* register_bet, `self.pay_fee(user)?` returning the error
register_bet_failed(sent, err) ==
    /\ call' = [sent EXCEPT !.result = err]
    /\ UNCHANGED <<bets, debits, credits, resolved, registered_at>>

\* register_bet past the fee: the insert and Ok(())
register_bet_insert(sent, bet_id, details) ==
    /\ bets' = Insert(bets, bet_id, details)
    /\ debits' = [debits EXCEPT ![sent.caller] = @ + 1]
    /\ registered_at' = [registered_at EXCEPT ![bet_id] = sent.latest]
    /\ call' = [sent EXCEPT !.result = "Ok", !.bet_id = bet_id, !.value = <<>>]
    /\ UNCHANGED <<credits, resolved>>

\* pub fn register_bet(&mut self) -> Result<(), Error>
register_bet(caller, transfer) ==
    LET user == caller
        sent == [Sent("register_bet", caller, 0) EXCEPT !.transfer = transfer]
        fee == pay_fee(user, transfer)
        bet_id == get_id
        current_round == get_latest_round
        round == future_round(current_round)
        details == BetDetails(round, user)
    IN  /\ UNCHANGED <<latest_round, random_values, decided>>
        /\ IF fee # "Ok" THEN register_bet_failed(sent, fee)
           ELSE IF round = Overflow THEN Trap(sent)
           ELSE register_bet_insert(sent, bet_id, details)

\* mutant of resolve_bet_too_early: the record is removed before the match
resolve_bet_too_early_after_remove(sent) ==
    /\ bets' = Remove(bets, sent.bet_id)
    /\ call' = [sent EXCEPT !.result = "BetResolutionTooEarly"]
    /\ UNCHANGED <<debits, credits, resolved, registered_at>>

\* resolve_bet, the None arm: return Err(Error::BetResolutionTooEarly)
resolve_bet_too_early(sent) ==
    /\ call' = [sent EXCEPT !.result = "BetResolutionTooEarly"]
    /\ UNCHANGED <<bets, debits, credits, resolved, registered_at>>

\* mutant of resolve_bet_failed: the record is removed although the reward
\* was not paid
resolve_bet_failed_after_remove(sent, err) ==
    /\ bets' = Remove(bets, sent.bet_id)
    /\ call' = [sent EXCEPT !.result = err]
    /\ UNCHANGED <<debits, credits, resolved, registered_at>>

\* resolve_bet, `self.pay_reward(user)?` returning the error
resolve_bet_failed(sent, err) ==
    /\ call' = [sent EXCEPT !.result = err]
    /\ UNCHANGED <<bets, debits, credits, resolved, registered_at>>

\* mutant of resolve_bet_remove: Ok(()) without self.bets.remove(bet_id)
resolve_bet_without_remove(sent, payee) ==
    /\ credits' = IF payee \in Users THEN [credits EXCEPT ![payee] = @ + 1]
                                     ELSE credits
    /\ resolved' = [resolved EXCEPT ![sent.bet_id] = @ + 1]
    /\ call' = [sent EXCEPT !.result = "Ok", !.paid = payee]
    /\ UNCHANGED <<bets, debits, registered_at>>

\* resolve_bet past the match: the reward if any was paid to `payee`; the
\* remove and Ok(())
resolve_bet_remove(sent, payee) ==
    /\ bets' = Remove(bets, sent.bet_id)
    /\ credits' = IF payee \in Users THEN [credits EXCEPT ![payee] = @ + 1]
                                     ELSE credits
    /\ resolved' = [resolved EXCEPT ![sent.bet_id] = @ + 1]
    /\ call' = [sent EXCEPT !.result = "Ok", !.paid = payee]
    /\ UNCHANGED <<debits, registered_at>>

\* mutant of bet_round: the oracle is asked for the round after its latest
bet_round_after_latest(bet_id) == get_latest_round + 1

\* resolve_bet: let round = self.bets.get(bet_id).unwrap().0, the record found
bet_round(bet_id) == bets[bet_id].round

\* `decided` once resolve_bet has decided `win` on `randomness`
Decide(randomness, win) == [decided EXCEPT ![randomness] = @ \cup {win}]

\* pub fn resolve_bet(&mut self, bet_id: BetId) -> Result<(), Error>
resolve_bet(caller, bet_id, transfer) ==
    LET user == caller
        sent == Sent("resolve_bet", caller, bet_id)
    IN  /\ UNCHANGED <<latest_round, random_values>>
        /\ IF bet_id \notin DOMAIN bets
           THEN \* self.bets.get(bet_id).unwrap() panics
                Trap(sent) /\ UNCHANGED decided
           ELSE LET round == bet_round(bet_id)
                    randomness == get_random_value_for_round(round)
                IN  IF randomness = None
                    THEN resolve_bet_too_early(sent) /\ UNCHANGED decided
                    ELSE /\ decided' = Decide(randomness, is_victorious(randomness))
                         /\ IF is_victorious(randomness)
                            THEN LET reward == pay_reward(user, transfer)
                                     paying == [sent EXCEPT !.transfer = transfer]
                                 IN  IF reward # "Ok"
                                     THEN resolve_bet_failed(paying, reward)
                                     ELSE resolve_bet_remove(paying, user)
                            ELSE resolve_bet_remove(sent, "nobody")

(* --------------------------- reentrant host ----------------------------- *)
\* resolve_bet up to `self.pay_reward(user)`, on a host whose payment hands
\* control to the recipient: the call is suspended there, with the state the
\* host restores if the call ends in an error
resolve_bet_pay_reward_call(caller, bet_id, transfer) ==
    /\ stack = <<>>
    /\ ncalls < MaxCalls
    /\ ncalls' = ncalls + 1
    /\ bet_id \in DOMAIN bets
    /\ LET round == bet_round(bet_id)
           randomness == get_random_value_for_round(round)
       IN  /\ randomness # None
           /\ is_victorious(randomness)
           /\ decided' = Decide(randomness, TRUE)
    /\ stack' = <<[sent |-> [Sent("resolve_bet", caller, bet_id) EXCEPT
                                !.transfer = transfer],
                   user |-> caller,
                   saved |-> [bets |-> bets, debits |-> debits,
                              credits |-> credits, resolved |-> resolved,
                              registered_at |-> registered_at]]>>
    /\ UNCHANGED <<bets, latest_round, random_values, call, debits, credits,
                   resolved, registered_at>>

\* the suspended resolve_bet ends in an error: the host reverts the call,
\* with whatever the messages sent from within it did
resolve_bet_reverted(sent, err, saved) ==
    /\ bets' = saved.bets
    /\ debits' = saved.debits
    /\ credits' = saved.credits
    /\ resolved' = saved.resolved
    /\ registered_at' = saved.registered_at
    /\ call' = [sent EXCEPT !.result = err]

\* the payment of the suspended resolve_bet returns: `?`, then
\* self.bets.remove(bet_id) and Ok(())
resolve_bet_pay_reward_return ==
    /\ stack # <<>>
    /\ LET frame == stack[1]
           reward == pay_reward(frame.user, frame.sent.transfer)
       IN  IF reward # "Ok"
           THEN resolve_bet_reverted(frame.sent, reward, frame.saved)
           ELSE resolve_bet_remove(frame.sent, frame.user)
    /\ stack' = <<>>
    /\ UNCHANGED <<latest_round, random_values, decided, ncalls>>

(* ------------------------------- state ---------------------------------- *)
\* struct Casino { bets, oracle }: bets maps some bet ids to (Round, User);
\* the oracle has published the rounds 1 .. latest_round
Casino ==
    /\ DOMAIN bets \subseteq BetIds
    /\ \A id \in DOMAIN bets : bets[id] \in [round : Rounds, user : Users]
    /\ latest_round \in Rounds
    /\ DOMAIN random_values = 1 .. latest_round
    /\ \A r \in DOMAIN random_values : random_values[r] \in RandomValues

(* --------------------------- specification ------------------------------ *)
\* Casino::new: an empty mapping; the oracle has published nothing yet
Init ==
    /\ bets = <<>>
    /\ latest_round = 0
    /\ random_values = <<>>
    /\ call = NoCall
    /\ debits = [u \in Users |-> 0]
    /\ credits = [u \in Users |-> 0]
    /\ resolved = [b \in BetIds |-> 0]
    /\ registered_at = [b \in BetIds |-> 0]
    /\ decided = [v \in RandomValues |-> {}]
    /\ stack = <<>>
    /\ ncalls = 0

\* one more message is sent to the contract, and runs to completion
Called == ncalls < MaxCalls /\ ncalls' = ncalls + 1 /\ UNCHANGED stack

Next ==
    \/ OraclePublish
    \/ \E k \in Rounds : Called /\ get_random(k)
    \/ \E u \in Users, t \in Transfers : Called /\ register_bet(u, t)
    \/ \E u \in Users, b \in BetIds, t \in Transfers : Called /\ resolve_bet(u, b, t)

Spec == Init /\ [][Next]_vars

\* the contract on a host that lets the recipient of a reward call back into
\* the contract before the payment returns; the oracle publishes between
\* transactions
NextReentrant ==
    \/ stack = <<>> /\ OraclePublish
    \/ \E k \in Rounds : Called /\ get_random(k)
    \/ \E u \in Users, t \in Transfers : Called /\ register_bet(u, t)
    \/ \E u \in Users, b \in BetIds, t \in Transfers : Called /\ resolve_bet(u, b, t)
    \/ \E u \in Users, b \in BetIds, t \in Transfers :
          resolve_bet_pay_reward_call(u, b, t)
    \/ resolve_bet_pay_reward_return

SpecReentrant == Init /\ [][NextReentrant]_vars

\* a resolve_bet that is retried: it does not count as a new message
Retried == UNCHANGED <<ncalls, stack>>

\* the contract with callers that retry resolve_bet for the live bets as
\* often as they like (get_random, which changes nothing of the contract, is
\* left out)
NextLive ==
    \/ OraclePublish
    \/ \E u \in Users, t \in Transfers :
          ncalls < MaxBets /\ Called /\ register_bet(u, t)
    \/ \E u \in Users, b \in DOMAIN bets, t \in Transfers :
          Retried /\ resolve_bet(u, b, t)

\* resolve_bet is called for a live bet, and the reward payment completes
RetryResolve ==
    \E u \in Users, b \in DOMAIN bets : Retried /\ resolve_bet(u, b, TRUE)

\* the oracle's rounds keep advancing, and resolve_bet keeps being retried
\* for a live bet with a reward credit that succeeds
SpecLive ==
    Init /\ [][NextLive]_vars /\ WF_vars(OraclePublish) /\ WF_vars(RetryResolve)

(* ------------------------------- claims --------------------------------- *)
\* the last message was `op` and it ended with `result`
Ended(op, result) == call.op = op /\ call.result = result

\* the last message was resolve_bet for a bet that was live when it arrived
ResolveOfLiveBet == call.op = "resolve_bet" /\ call.bet_id \in DOMAIN call.before

\* the oracle's answer, when the last message arrived, for the round of the
\* bet it was asked to resolve
RandomnessAtCall ==
    LET round == call.before[call.bet_id].round
    IN  IF round \in DOMAIN call.oracle THEN call.oracle[round] ELSE None

\* C1: the bet_id a successful register_bet allocates is the id of no record
\* that is live when it is called.
C1_FreshBetId ==
    Ended("register_bet", "Ok") => call.bet_id \notin DOMAIN call.before

\* C2: a resolve_bet for a bet_id that was resolved before, and not
\* registered again since, returns BetNotFound, pays nothing and leaves the
\* ledger unchanged.
C2_SecondResolveIsBetNotFound ==
    (/\ call.op = "resolve_bet"
     /\ resolved[call.bet_id] > 0
     /\ call.bet_id \notin DOMAIN call.before)
    => (/\ call.result = "BetNotFound"
        /\ call.paid = "nobody"
        /\ credits = call.credits
        /\ bets = call.before)

\* C3: a resolve_bet for a live bet whose round the oracle has not published
\* returns BetResolutionTooEarly, credits no reward and leaves the ledger,
\* with the bet's record, as it was.
C3_TooEarlyKeepsRecord ==
    (ResolveOfLiveBet /\ RandomnessAtCall = None)
    => (/\ call.result = "BetResolutionTooEarly"
        /\ call.paid = "nobody"
        /\ credits = call.credits
        /\ bets = call.before)

\* C3 witness: a live bet, an oracle that has published some round but not
\* the bet's, and a resolve_bet rejected as too early
C3_Witness ==
    /\ ResolveOfLiveBet
    /\ RandomnessAtCall = None
    /\ call.oracle # <<>>
    /\ call.result = "BetResolutionTooEarly"
    /\ call.bet_id \in DOMAIN bets

C5_UnknownIdIsTypedError ==
    (call.op = "resolve_bet" /\ call.bet_id \notin DOMAIN call.before)
    => (/\ call.result \in Errors \cup {"BetNotFound"}
        /\ bets = call.before
        /\ credits = call.credits)

\* C6: the identity a resolve_bet credits is the owner stored in the record
\* it resolves.
C6_RewardGoesToOwner ==
    (ResolveOfLiveBet /\ call.paid # "nobody")
    => call.paid = call.before[call.bet_id].user

\* C7: the record a successful register_bet inserts has the oracle's latest
\* round plus 2 as its round and the caller as its owner, and no other
\* record is inserted or changed.
C7_RecordIsLatestPlusTwoAndCaller ==
    Ended("register_bet", "Ok")
    => (/\ call.bet_id \in DOMAIN bets
        /\ bets[call.bet_id] = [round |-> call.latest + 2, user |-> call.caller]
        /\ \A id \in DOMAIN bets \ {call.bet_id} :
              id \in DOMAIN call.before /\ bets[id] = call.before[id])

\* C7 witness: a register_bet succeeded after the oracle had published a round
C7_Witness ==
    /\ Ended("register_bet", "Ok")
    /\ call.latest > 0
    /\ call.bet_id \in DOMAIN bets

\* C8: a successful register_bet returns the bet_id under which it stored
\* the record.
C8_ReturnsBetId ==
    Ended("register_bet", "Ok")
    => (call.value = <<call.bet_id>> /\ call.bet_id \in DOMAIN bets)

TotalDebits == debits["alice"] + debits["bob"]
TotalCredits == credits["alice"] + credits["bob"]
TotalResolved == resolved[41] + resolved[42] + resolved[43]

\* C11: the number of live records is the number of successful fee debits
\* minus the number of resolve_bet calls that returned Ok.
C11_LiveRecordsArePaidUnresolvedBets ==
    Cardinality(DOMAIN bets) = TotalDebits - TotalResolved

\* C12: a record that is live before and after a message has the same
\* (target_round, owner) after it as before it.
C12_LiveRecordNeverChanges ==
    \A id \in DOMAIN bets \cap DOMAIN call.before : bets[id] = call.before[id]

\* C13: a bet_id that a resolve_bet has resolved is not live in the ledger.
C13_ResolvedIdNeverLiveAgain ==
    \A id \in BetIds : resolved[id] > 0 => id \notin DOMAIN bets

\* C14: reward credits never exceed the resolve_bet calls that returned Ok
\* (no bet is paid twice), which never exceed the successful fee debits (no
\* reward without a paid-for bet).
C14_CreditsWithinDebits ==
    TotalCredits <= TotalResolved /\ TotalResolved <= TotalDebits

\* C14 witness: two fees were debited and a reward was credited
C14_Witness ==
    TotalDebits >= 2 /\ TotalCredits >= 1 /\ Ended("resolve_bet", "Ok")

\* C15: get_random(key) returns what the oracle has for round key, None if
\* it has not published it, and leaves the ledger as it was.
C15_GetRandomIsPassthrough ==
    call.op = "get_random"
    => (/\ call.value = IF call.key \in DOMAIN call.oracle
                        THEN call.oracle[call.key] ELSE None
        /\ call.result = "Ok"
        /\ bets = call.before)

\* C15 witness: get_random returned the randomness of a published round
\* while a bet was live
C15_Witness ==
    /\ call.op = "get_random"
    /\ call.key \in DOMAIN call.oracle
    /\ call.key < call.latest
    /\ call.value \in RandomValues
    /\ bets # <<>>

\* C17: the oracle has published exactly the rounds up to its latest one.
\* When register_bet inserts a record, the oracle has not published the
\* record's round; every live record's round is later than the oracle's
\* latest round at its registration; and the round whose randomness a
\* resolve_bet that returns Ok evaluated was unpublished when that bet was
\* registered.
C17_NoPrematureResolution ==
    /\ DOMAIN random_values = 1 .. latest_round
    /\ Ended("register_bet", "Ok")
       => bets[call.bet_id].round \notin DOMAIN call.oracle
    /\ \A id \in DOMAIN bets : bets[id].round > registered_at[id]
    /\ Ended("resolve_bet", "Ok")
       => (/\ call.before[call.bet_id].round > registered_at[call.bet_id]
           /\ call.before[call.bet_id].round \in DOMAIN call.oracle)

\* C17 witness: a bet registered after the oracle had published a round was
\* resolved with Ok
C17_Witness ==
    /\ Ended("resolve_bet", "Ok")
    /\ ResolveOfLiveBet
    /\ registered_at[call.bet_id] > 0

\* C19: a successful register_bet stores a round greater than the round it
\* observed; when the observed round plus 2 exceeds the maximum of Round, a
\* register_bet whose fee was paid aborts and inserts nothing.
C19_NoWrapAround ==
    /\ Ended("register_bet", "Ok") => bets[call.bet_id].round > call.latest
    /\ (call.op = "register_bet" /\ call.transfer /\ call.latest + 2 > RoundMax)
       => (call.result = "Trap" /\ bets = call.before)

\* C19 witness: register_bet was called with the oracle's latest round within
\* 2 of the maximum, and aborted
C19_Witness ==
    /\ call.op = "register_bet"
    /\ call.transfer
    /\ call.latest + 2 > RoundMax
    /\ call.result = "Trap"

\* C20: whatever the ledger, the caller, the bet id and the order of the
\* calls, resolve_bet makes one and the same win decision on the same
\* randomness bytes.
C20_WinDecidedByRandomnessAlone ==
    \A v \in RandomValues : Cardinality(decided[v]) <= 1

\* C20 witness: resolve_bet decided on the same bytes for alice and for bob,
\* in different ledger states
C20_Witness ==
    \E v \in RandomValues :
        /\ decided[v] # {}
        /\ \A r \in DOMAIN random_values : random_values[r] = v
        /\ credits["alice"] >= 1
        /\ credits["bob"] >= 1

C18_LiveBetEventuallyResolved ==
    \A id \in BetIds :
        (id \in DOMAIN bets)
        ~> (Ended("resolve_bet", "Ok") /\ call.bet_id = id /\ id \notin DOMAIN bets)

\* C18 witness: a bet whose round is the last one the oracle can publish
\* was resolved with Ok
C18_Witness ==
    /\ Ended("resolve_bet", "Ok")
    /\ ResolveOfLiveBet
    /\ call.before[call.bet_id].round = RoundMax

=============================================================================
